---- MODULE Spec2Model ----
(***************************************************************************)
(* Model of experiments/intrinsic_naive.py: the naive baseline of the      *)
(* intrinsic evaluation.  stratify_by_interval walks the benchmark, samples *)
(* up to n random sub-lists of each instance's constraints, asks the SMT    *)
(* solver whether the sub-list is UNSAT, and aggregates counts and          *)
(* reduction ratios per size interval and under 'Total'.                    *)
(*                                                                          *)
(* The SMT solver is external: an instance carries the solver's answers as  *)
(* data (the family of its minimal unsatisfiable cores and the core the     *)
(* solver returns for the full formula).  Constraint strings are modelled   *)
(* by distinct numbers.  Python floats are modelled by exact rationals      *)
(* <<numerator, denominator>>.                                              *)
(***************************************************************************)
EXTENDS Integers, Sequences, FiniteSets

VARIABLES
    data,          \* data_instances, the loaded benchmark
    n,             \* parameter n
    seed,          \* parameter seed: <<>> is None, <<s>> the integer s
    rng,           \* state of the global generator of module random
    pc,            \* position in stratify_by_interval
    idx,           \* number of instances the for loop has taken
    attempts,      \* iterations of range(n) started for the instance
    subset,        \* local subset (meaningful when subset_bound)
    subset_bound,  \* whether the local subset has been assigned
    is_unsat,      \* local is_unsat
    mus,           \* local mus
    stratified_results,
    pct,
    pct_corr,
    error,         \* the exception that ended the call, "" when none
    ret,           \* the returned tuple, <<>> before the return
    checks,        \* history: verdicts of the subsets checked for the instance
    hist,          \* history: one record per aggregated instance
    trace,         \* history: every subset sampled in this call (when tracing)
    tracing,       \* whether the history of samples is kept
    calls,         \* number of calls started
    first          \* history: trace and outcome of the first call

vars == <<data, n, seed, rng, pc, idx, attempts, subset, subset_bound, is_unsat,
          mus, stratified_results, pct, pct_corr, error, ret, checks, hist,
          trace, tracing, calls, first>>

\* ------------------------------------------------------------- bounds
MaxInstances == 2
MaxN == 2
\* the sizes over which the key arithmetic is compared
MaxSize == 50

\* ---------------------------------------------------------- rationals
RECURSIVE GCD(_, _)
GCD(a, b) == IF b = 0 THEN a ELSE GCD(b, a % b)

Abs(x) == IF x < 0 THEN -x ELSE x

\* a / b for integers a and b # 0, in lowest terms with a positive denominator
Frac(a, b) ==
    LET g == GCD(Abs(a), Abs(b))
        s == IF b < 0 THEN -1 ELSE 1
    IN  <<(s * a) \div g, (s * b) \div g>>

Zero == Frac(0, 1)

RAdd(x, y) == Frac(x[1] * y[2] + y[1] * x[2], x[2] * y[2])

RLeq(x, y) == x[1] * y[2] <= y[1] * x[2]

RECURSIVE RSum(_)
RSum(s) == IF s = <<>> THEN Zero ELSE RAdd(RSum(Tail(s)), Head(s))

\* statistics.mean of a non-empty list
Mean(s) == LET t == RSum(s) IN Frac(t[1], t[2] * Len(s))

\* ------------------------------------------------------------ dataset
Inst(c, cores, core) ==
    [constraints |-> [i \in 1..c |-> i], cores |-> cores, mus |-> core]

\* Benchmark instances: an unsatisfiable conjunction of at least one
\* constraint (the empty conjunction is satisfiable), the solver's minimal
\* cores, and the core it reports for the full formula, which is
\* unsatisfiable but need not be minimal.  The instances cover a reported
\* core that is the whole formula, an UNSAT subset smaller than the reported
\* core, and two size intervals.
Catalog ==
    { Inst(1, {{1}}, {1}),
      Inst(3, {{1, 2}, {3}}, {1, 2}),
      Inst(10, {{i} : i \in 1..8}, {1, 2}) }

Range(s) == {s[i] : i \in DOMAIN s}

\* the benchmarks of at most k pairwise different instances of S
RECURSIVE Datasets(_, _)
Datasets(S, k) ==
    IF k = 0 THEN {<<>>}
    ELSE LET shorter == Datasets(S, k - 1)
             longest == {t \in shorter : Len(t) = k - 1}
         IN  shorter \cup UNION {{Append(s, x) : x \in S \ Range(s)} : s \in longest}

\* --------------------------------------------------- random generator
Unknown == [seeded |-> FALSE, s |-> 0, pos |-> 0]

\* random.seed(s)
SeedState(s) == [seeded |-> TRUE, s |-> s, pos |-> 0]

\* the k-th draw of random.choice([True, False]) after random.seed(s)
Bit(s, k) == ((((s + k) * (s + k + 3)) \div 2) + (s * k)) % 2 = 1

\* `if seed:` is false for None and for 0
Truthy(sd) == sd # <<>> /\ sd[1] # 0

SeedRng(sd, r) == IF Truthy(sd) THEN SeedState(sd[1]) ELSE r

\* the masks len draws of random.choice([True, False]) can produce
Masks(len, r) ==
    IF r.seeded THEN {[i \in 1..len |-> Bit(r.s, r.pos + i - 1)]}
    ELSE [1..len -> BOOLEAN]

Advance(r, len) == IF r.seeded THEN [r EXCEPT !.pos = r.pos + len] ELSE r

\* [element for element in all_clauses if mask]
RECURSIVE Keep(_, _)
Keep(all_clauses, mask) ==
    IF all_clauses = <<>> THEN <<>>
    ELSE LET rest == Keep(Tail(all_clauses), Tail(mask))
         IN  IF Head(mask) THEN <<Head(all_clauses)>> \o rest ELSE rest

\* ------------------------------------------------------------- solver
\* UNSATVerifier.check: the solver's verdict on the conjunction of a subset
Check(instance, sub) == \E core \in instance.cores : core \subseteq Range(sub)

\* mutant: the loop goes on after an UNSAT subset
AfterCheckNoBreak(verdict) == "loop"

\* line 119: break out of the loop on UNSAT, else the next iteration
AfterCheck(verdict) == IF verdict THEN "stats" ELSE "loop"

\* -------------------------------------------------------- bucket keys
DigitChar(d) == <<"0", "1", "2", "3", "4", "5", "6", "7", "8", "9">>[d + 1]

RECURSIVE Str(_)
Str(k) == IF k < 10 THEN <<DigitChar(k)>> ELSE Str(k \div 10) \o <<DigitChar(k % 10)>>

\* mutant: floor division in place of the remainder
LowerLimDiv(c) == c - (c \div 10)

LowerLim(c) == c - (c % 10)

UpperLim(c) == LowerLim(c) + 10

Key(c) == Str(LowerLim(c)) \o <<"-">> \o Str(UpperLim(c))

TotalKey == <<"T", "o", "t", "a", "l">>

\* ---------------------------------------------------------- the ratio
\* mutant: the reduction is divided by the size of the formula
RatioOverAll(c, k, m) == IF c - m = 0 THEN Zero ELSE Frac(c - k, c)

Ratio(c, k, m) == IF c - m = 0 THEN Zero ELSE Frac(c - k, c - m)

Fraction(c, k) == Frac(c - k, c)

\* mutant: the reduction is recorded whether or not the subset is UNSAT
PctEntryAlways(unsat, c, k) == Frac(c - k, c)

PctEntry(unsat, c, k) == IF unsat THEN Fraction(c, k) ELSE Zero

PctCorr(unsat, c, k, old) == IF unsat THEN Append(old, Fraction(c, k)) ELSE old

\* mutant: correct is incremented whether or not the subset is UNSAT
UpsertAlwaysCorrect(res, key, unsat, r) ==
    [k \in DOMAIN res \cup {key} |->
        IF k # key THEN res[k]
        ELSE IF key \in DOMAIN res
             THEN [correct |-> res[key].correct + 1,
                   total   |-> res[key].total + 1,
                   ratio   |-> RAdd(r, res[key].ratio)]
             ELSE [correct |-> 1, total |-> 1, ratio |-> r]]

\* the bucket update, the same for an interval key and for 'Total'
Upsert(res, key, unsat, r) ==
    [k \in DOMAIN res \cup {key} |->
        IF k # key THEN res[k]
        ELSE IF key \in DOMAIN res
             THEN [correct |-> res[key].correct + (IF unsat THEN 1 ELSE 0),
                   total   |-> res[key].total + 1,
                   ratio   |-> RAdd(r, res[key].ratio)]
             ELSE [correct |-> IF unsat THEN 1 ELSE 0, total |-> 1, ratio |-> r]]

Empty == [k \in {} |-> 0]

\* -------------------------------------------------------------- state
Cur == data[idx]

Entry(d, nn, sd, r) ==
    /\ data = d /\ n = nn /\ seed = sd /\ rng = r
    /\ pc = "seed" /\ idx = 0 /\ attempts = 0
    /\ subset = <<>> /\ subset_bound = FALSE /\ is_unsat = FALSE /\ mus = {}
    /\ stratified_results = Empty /\ pct = <<>> /\ pct_corr = <<>>
    /\ error = "" /\ ret = <<>> /\ checks = <<>> /\ hist = <<>> /\ trace = <<>>

Init ==
    /\ \E d \in Datasets(Catalog, MaxInstances), nn \in 0..MaxN,
          sd \in {<<>>, <<1>>} :
          Entry(d, nn, sd, Unknown)
    /\ tracing = FALSE
    /\ calls = 1
    /\ first = <<>>

\* line 93, and the locals of lines 100-102
Seed ==
    /\ pc = "seed"
    /\ rng' = SeedRng(seed, rng)
    /\ pc' = "for"
    /\ UNCHANGED <<data, n, seed, idx, attempts, subset, subset_bound, is_unsat, mus,
                   stratified_results, pct, pct_corr, error, ret, checks, hist,
                   trace, tracing, calls, first>>

\* lines 103-109: the next instance, its core, is_unsat = False
NextInstance ==
    /\ pc = "for"
    /\ idx < Len(data)
    /\ idx' = idx + 1
    /\ mus' = data[idx + 1].mus
    /\ is_unsat' = FALSE
    /\ attempts' = 0
    /\ checks' = <<>>
    /\ pc' = "loop"
    /\ UNCHANGED <<data, n, seed, rng, subset, subset_bound, stratified_results,
                   pct, pct_corr, error, ret, hist, trace, tracing, calls, first>>

\* lines 110-119: one iteration: sample, check, break on UNSAT
SampleCheck ==
    /\ pc = "loop"
    /\ attempts < n
    /\ \E mask \in Masks(Len(Cur.constraints), rng) :
          LET sub == Keep(Cur.constraints, mask)
              verdict == Check(Cur, sub)
          IN  /\ subset' = sub
              /\ is_unsat' = verdict
              /\ checks' = Append(checks, verdict)
              /\ trace' = IF tracing THEN Append(trace, sub) ELSE trace
              /\ pc' = AfterCheck(verdict)
    /\ subset_bound' = TRUE
    /\ rng' = Advance(rng, Len(Cur.constraints))
    /\ attempts' = attempts + 1
    /\ UNCHANGED <<data, n, seed, idx, mus, stratified_results, pct, pct_corr,
                   error, ret, hist, tracing, calls, first>>

\* line 110: range(n) is exhausted
LoopExit ==
    /\ pc = "loop"
    /\ attempts >= n
    /\ pc' = "stats"
    /\ UNCHANGED <<data, n, seed, rng, idx, attempts, subset, subset_bound, is_unsat,
                   mus, stratified_results, pct, pct_corr, error, ret, checks, hist,
                   trace, tracing, calls, first>>

\* lines 121-157
Aggregate ==
    /\ pc = "stats"
    /\ subset_bound
    /\ LET c == Len(Cur.constraints)
           k == Len(subset)
           ratio == Ratio(c, k, Cardinality(mus))
           key == Key(c)
       IN  /\ pct' = Append(pct, PctEntry(is_unsat, c, k))
           /\ pct_corr' = PctCorr(is_unsat, c, k, pct_corr)
           /\ stratified_results' =
                  Upsert(Upsert(stratified_results, key, is_unsat, ratio),
                         TotalKey, is_unsat, ratio)
           /\ hist' = Append(hist, [c |-> c, k |-> k, m |-> Cardinality(mus),
                                    unsat |-> is_unsat, key |-> key])
    /\ pc' = "for"
    /\ UNCHANGED <<data, n, seed, rng, idx, attempts, subset, subset_bound, is_unsat,
                   mus, error, ret, checks, trace, tracing, calls, first>>

\* line 122 when no iteration assigned subset
RaiseUnbound ==
    /\ pc = "stats"
    /\ ~subset_bound
    /\ pc' = "raised"
    /\ error' = "UnboundLocalError"
    /\ UNCHANGED <<data, n, seed, rng, idx, attempts, subset, subset_bound, is_unsat,
                   mus, stratified_results, pct, pct_corr, ret, checks, hist,
                   trace, tracing, calls, first>>

\* lines 159-160; statistics.mean raises on an empty list.  dict(sorted(...))
\* reorders the keys of the mapping, which as a function is the same.
Return ==
    /\ pc = "for"
    /\ idx = Len(data)
    /\ IF pct = <<>> \/ pct_corr = <<>>
       THEN /\ pc' = "raised"
            /\ error' = "StatisticsError"
            /\ ret' = ret
       ELSE /\ pc' = "done"
            /\ error' = error
            /\ ret' = <<stratified_results, Mean(pct), Mean(pct_corr)>>
    /\ UNCHANGED <<data, n, seed, rng, idx, attempts, subset, subset_bound, is_unsat,
                   mus, stratified_results, pct, pct_corr, checks, hist, trace,
                   tracing, calls, first>>

Next ==
    \/ Seed
    \/ NextInstance
    \/ SampleCheck
    \/ LoopExit
    \/ Aggregate
    \/ RaiseUnbound
    \/ Return

Spec == Init /\ [][Next]_vars

\* ------------------------------------------------ two calls in a row
\* A caller that calls stratify_by_interval twice with the same arguments.
\* The generator of module random is global: the second call finds it in
\* the state the first one left.
SmallCatalog == {inst \in Catalog : Len(inst.constraints) < 10}

InitSeed ==
    /\ \E d \in Datasets(SmallCatalog, MaxInstances), nn \in 0..MaxN,
          sd \in {<<>>, <<0>>, <<1>>, <<2>>}, r \in {Unknown, SeedState(42)} :
          Entry(d, nn, sd, r)
    /\ tracing = TRUE
    /\ calls = 1
    /\ first = <<>>

Recall ==
    /\ pc \in {"done", "raised"}
    /\ calls = 1
    /\ calls' = 2
    /\ first' = <<[trace |-> trace, ret |-> ret, error |-> error]>>
    /\ pc' = "seed" /\ idx' = 0 /\ attempts' = 0
    /\ subset' = <<>> /\ subset_bound' = FALSE /\ is_unsat' = FALSE /\ mus' = {}
    /\ stratified_results' = Empty /\ pct' = <<>> /\ pct_corr' = <<>>
    /\ error' = "" /\ ret' = <<>> /\ checks' = <<>> /\ hist' = <<>> /\ trace' = <<>>
    /\ UNCHANGED <<data, n, seed, rng, tracing>>

NextSeed ==
    \/ Next
    \/ Recall

SpecSeed == InitSeed /\ [][NextSeed]_vars

\* ============================================================ claims
Processed == DOMAIN hist

IntervalKeys == DOMAIN stratified_results \ {TotalKey}

\* the instances recorded under a key ('Total' takes every instance)
InBucket(i, key) == key = TotalKey \/ hist[i].key = key

RECURSIVE SumTotal(_)
SumTotal(S) ==
    IF S = {} THEN 0
    ELSE LET k == CHOOSE x \in S : TRUE
         IN  stratified_results[k].total + SumTotal(S \ {k})

RECURSIVE SumCorrect(_)
SumCorrect(S) ==
    IF S = {} THEN 0
    ELSE LET k == CHOOSE x \in S : TRUE
         IN  stratified_results[k].correct + SumCorrect(S \ {k})

RECURSIVE SumRatio(_)
SumRatio(S) ==
    IF S = {} THEN <<0, 1>>
    ELSE LET k == CHOOSE x \in S : TRUE
         IN  RAdd(stratified_results[k].ratio, SumRatio(S \ {k}))

\* C1: for n >= 1 the subsets of an instance are checked one at a time, at
\* most n of them, every one before the last was not UNSAT (sampling stops
\* at the first UNSAT subset), and after the loop is_unsat is the verdict
\* on the last subset checked.
C1_StopsAtFirstUnsat ==
    n >= 1 =>
        /\ Len(checks) <= n
        /\ \A i \in 1..(Len(checks) - 1) : ~checks[i]
        /\ pc = "stats" =>
              /\ Len(checks) >= 1
              /\ attempts = Len(checks)
              /\ is_unsat = checks[Len(checks)]
              /\ is_unsat = Check(Cur, subset)
              /\ ~is_unsat => Len(checks) = n

C1_Witness ==
    /\ pc = "stats" /\ n = 2 /\ checks = <<FALSE, TRUE>> /\ is_unsat

\* C2: an instance of c constraints is recorded under the key 'L-U' where L
\* is the multiple of 10 with L <= c < L + 10 and U = L + 10; two instances
\* share a key exactly when their sizes have the same floor(c / 10).
C2_IntervalKey ==
    /\ \A i \in Processed :
          LET c == Len(data[i].constraints)
              L == 10 * (c \div 10)
          IN  /\ L = c - (c % 10) /\ L % 10 = 0 /\ L <= c /\ c < L + 10
              /\ hist[i].key = Str(L) \o <<"-">> \o Str(L + 10)
              /\ hist[i].key \in IntervalKeys
    /\ \A i, j \in Processed :
          (hist[i].key = hist[j].key) <=>
              (Len(data[i].constraints) \div 10 = Len(data[j].constraints) \div 10)
    /\ \A k \in IntervalKeys : \E i \in Processed : hist[i].key = k
    \* the key as a function of the size (it reads no state: once per run)
    /\ pc = "seed" =>
          \A c1, c2 \in 0..MaxSize :
              /\ Key(c1) = Str(10 * (c1 \div 10)) \o <<"-">> \o Str(10 * (c1 \div 10) + 10)
              /\ (Key(c1) = Key(c2)) <=> (c1 \div 10 = c2 \div 10)
              /\ Key(c1) # TotalKey

C2_Witness ==
    /\ Len(hist) = 2
    /\ Len(data[1].constraints) = 3 /\ Len(data[2].constraints) = 10
    /\ hist[1].key = <<"0", "-", "1", "0">>
    /\ hist[2].key = <<"1", "0", "-", "2", "0">>
    /\ Cardinality(IntervalKeys) = 2

\* C3: after any prefix of the instances, every bucket has
\* 0 <= correct <= total and total >= 1; every processed instance is counted
\* in exactly one interval bucket and once in 'Total': Total.total is the
\* number of processed instances and the sum of the interval totals,
\* Total.correct is the number of instances with an UNSAT subset and the sum
\* of the interval correct counts.
C3_Counts ==
    /\ \A k \in DOMAIN stratified_results :
          /\ 0 <= stratified_results[k].correct
          /\ stratified_results[k].correct <= stratified_results[k].total
          /\ stratified_results[k].total >= 1
          /\ stratified_results[k].total = Cardinality({i \in Processed : InBucket(i, k)})
          /\ stratified_results[k].correct =
                Cardinality({i \in Processed : InBucket(i, k) /\ hist[i].unsat})
    /\ (TotalKey \in DOMAIN stratified_results) <=> (hist # <<>>)
    /\ hist # <<>> =>
          /\ stratified_results[TotalKey].total = Len(hist)
          /\ stratified_results[TotalKey].total = SumTotal(IntervalKeys)
          /\ stratified_results[TotalKey].correct = SumCorrect(IntervalKeys)
    /\ Len(hist) = (IF pc \in {"loop", "stats"} \/ error = "UnboundLocalError"
                    THEN idx - 1 ELSE idx)

C3_Witness ==
    /\ Len(hist) = 2
    /\ Cardinality(IntervalKeys) = 2
    /\ stratified_results[TotalKey].total = 2
    /\ stratified_results[TotalKey].correct = 1

\* the ratio of instance i, from the benchmark and the length of its subset
ExpRatio(i) ==
    LET c == Len(data[i].constraints)
        m == Cardinality(data[i].mus)
    IN  IF c = m THEN <<0, 1>> ELSE Frac(c - hist[i].k, c - m)

\* the sum of the ratios of the first i instances recorded under key
RECURSIVE RatioSum(_, _, _)
RatioSum(i, key, correctOnly) ==
    IF i = 0 THEN <<0, 1>>
    ELSE LET rest == RatioSum(i - 1, key, correctOnly)
         IN  IF InBucket(i, key) /\ (correctOnly => hist[i].unsat)
             THEN RAdd(rest, ExpRatio(i))
             ELSE rest

RECURSIVE SubLists(_)
SubLists(s) ==
    IF s = <<>> THEN {<<>>}
    ELSE LET rest == SubLists(Tail(s))
         IN  rest \cup {<<Head(s)>> \o u : u \in rest}

\* C5: for every n, n = 0 included, the subset whose length enters the
\* statistics of an instance is bound, was sampled while that instance was
\* processed and is an order-preserving sub-list of its constraints; and
\* every such sub-list is a possible sample.
C5_SubsetOfInstance ==
    /\ pc = "stats" =>
          /\ subset_bound
          /\ attempts >= 1
          /\ subset \in SubLists(Cur.constraints)
    /\ (pc = "loop" /\ attempts < n /\ hist = <<>> /\ ~rng.seeded) =>
          {Keep(Cur.constraints, mask) : mask \in Masks(Len(Cur.constraints), rng)}
              = SubLists(Cur.constraints)

\* C5 for n >= 1 only: what holds of the code
C5_SubsetOfInstanceForPositiveN == n >= 1 => C5_SubsetOfInstance

\* C6: two calls with the same integer seed (0 included), benchmark and n
\* sample the same subsets and end the same way, whatever the state of the
\* generator before each call.
C6_SeedDeterminism ==
    (seed # <<>> /\ calls = 2 /\ pc \in {"done", "raised"}) =>
        /\ trace = first[1].trace
        /\ ret = first[1].ret
        /\ error = first[1].error

\* C6 for the seeds `if seed:` accepts: what holds of the code
C6_SeedDeterminismForNonZeroSeed == Truthy(seed) => C6_SeedDeterminism

\* the entry of instance i in pct
ExpPct(i) ==
    LET c == Len(data[i].constraints)
    IN  IF hist[i].unsat THEN Frac(c - hist[i].k, c) ELSE <<0, 1>>

RECURSIVE ExpPctCorr(_)
ExpPctCorr(i) ==
    IF i = 0 THEN <<>>
    ELSE IF hist[i].unsat THEN Append(ExpPctCorr(i - 1), ExpPct(i))
         ELSE ExpPctCorr(i - 1)

\* C7: pct has one entry per processed instance, the fraction
\* (|all_clauses| - |subset|) / |all_clauses| when an UNSAT subset was found
\* and 0 otherwise; pct_corr has that entry for the UNSAT instances only.
\* len(pct) = Total.total, len(pct_corr) = Total.correct, every entry is in
\* [0, 1], the lists have the same sum, and where both means exist the mean
\* of pct is at most the mean of pct_corr.
C7_Pct ==
    /\ pct = [i \in 1..Len(hist) |-> ExpPct(i)]
    /\ pct_corr = ExpPctCorr(Len(hist))
    /\ hist # <<>> =>
          /\ Len(pct) = stratified_results[TotalKey].total
          /\ Len(pct_corr) = stratified_results[TotalKey].correct
    /\ \A i \in DOMAIN pct : RLeq(<<0, 1>>, pct[i]) /\ RLeq(pct[i], <<1, 1>>)
    /\ \A i \in DOMAIN pct_corr : RLeq(<<0, 1>>, pct_corr[i]) /\ RLeq(pct_corr[i], <<1, 1>>)
    /\ RSum(pct) = RSum(pct_corr)
    /\ pct_corr # <<>> => RLeq(Mean(pct), Mean(pct_corr))
    /\ pc = "done" => ret[2] = Mean(pct) /\ ret[3] = Mean(pct_corr)

C7_Witness ==
    /\ Len(pct) = 2 /\ Len(pct_corr) = 1
    /\ pct[1] = <<0, 1>> /\ pct[2] = <<1, 3>> /\ pct_corr[1] = <<1, 3>>
    /\ ~hist[1].unsat /\ hist[1].k = 1

\* C8: an instance without an UNSAT subset adds nothing to the accumulated
\* ratio: the ratio of a bucket is the sum of the ratios of its correct
\* instances only.
C8_FailedAddsNothing ==
    \A k \in DOMAIN stratified_results :
        stratified_results[k].ratio = RatioSum(Len(hist), k, TRUE)

====
